---- MODULE Spec2Model ----
(***************************************************************************)
(* SQLiteKV (src/sqliteKV.py): a key-value store over two SQLite tables,   *)
(*   vals(ID INTEGER PRIMARY KEY, value TEXT UNIQUE NOT NULL)              *)
(*   keys(key TEXT UNIQUE NOT NULL, valueID INTEGER NOT NULL)              *)
(* The database file holds the committed rows (dvals, dkeys); every        *)
(* connection sees them plus the rows of its own open transaction          *)
(* (pendV, pendK).  put and putmany are modelled statement by statement,   *)
(* one action per INSERT / executemany and one per commit, so that the     *)
(* states between the two commit points are states of the model.           *)
(***************************************************************************)
EXTENDS Integers, Sequences, FiniteSets, TLC

\* ---------------------------------------------------------------- bounds
NumKeys == 3
NumVals == 2
MaxBatch == 2
NumConns == 2
RaceBatch == 1

KeyNames == <<"a", "b", "c", "d">>
ValNames == <<"X", "", "Y", "Z">>

Keys == {KeyNames[i] : i \in 1..NumKeys}

Values == {ValNames[i] : i \in 1..NumVals}

Conns == 1..NumConns

\* Python's None; no stored value equals it (vals.value is TEXT NOT NULL).
None == "<None>"

\* The defaults a caller passes to get(key, default).
Defaults == {None, "D"}

\* fetchone() on an empty result.
NoRow == [ID |-> 0, value |-> None]

\* A dict {key: value} in iteration order: pairs with pairwise distinct keys.
Mappings ==
  UNION {{m \in [1..n -> Keys \X Values] :
            \A i, j \in 1..n : i # j => m[i][1] # m[j][1]} : n \in 0..MaxBatch}

NoMapping == <<>>

VARIABLES
  tables,     \* names of the tables present in the database file
  dvals,      \* committed rows of vals: records [ID, value]
  dkeys,      \* committed rows of keys: records [key, valueID]
  pendV,      \* pendV[c]: rows of vals inserted by c's open transaction
  pendK,      \* pendK[c]: rows of keys inserted by c's open transaction
  intx,       \* intx[c]: conn.in_transaction
  pc,         \* pc[c]: "closed", "idle", or the statement c's call is at
  call,       \* call[c]: the operation c was last asked for; for put, its arguments
  mapping,    \* mapping[c]: putmany's argument
  entry,      \* entry[c]: the tables as c's running put / putmany found them
  value_ids,  \* value_ids[c]: putmany's local dict, content -> ID
  already_there, \* already_there[c]: putmany's local set of the mapping's stored keys
  row,        \* row[c]: __setitem__'s local row of vals
  res         \* res[c]: how c's last call ended, and what it returned

vars == <<tables, dvals, dkeys, pendV, pendK, intx, pc, call, mapping, entry,
          value_ids, already_there, row, res>>

\* ------------------------------------------------------------ SQL engine
Max(S) == CHOOSE x \in S : \A y \in S : y <= x

\* INTEGER PRIMARY KEY without AUTOINCREMENT: largest rowid in use, plus one.
NextID(vals) == IF vals = {} THEN 1 ELSE Max({r.ID : r \in vals}) + 1

\* Mutant: the query without its WHERE clause.
SelectValAny(vals, v) ==
  IF vals = {} THEN NoRow ELSE CHOOSE r \in vals : \A q \in vals : r.ID <= q.ID

\* SELECT * FROM vals WHERE value=(?) ; fetchone()
SelectVal(vals, v) ==
  IF \E r \in vals : r.value = v
  THEN CHOOSE r \in vals : r.value = v /\ \A q \in vals : q.value = v => r.ID <= q.ID
  ELSE NoRow

\* Mutant: vals.value declared without UNIQUE.
InsertValNoUnique(vals, v) ==
  [ok |-> TRUE, rows |-> vals \cup {[ID |-> NextID(vals), value |-> v]}]

\* INSERT INTO vals(value) VALUES (?): the UNIQUE constraint on value rejects
\* a content that is already there and the statement then changes nothing.
InsertVal(vals, v) ==
  IF \E r \in vals : r.value = v
  THEN [ok |-> FALSE, rows |-> vals]
  ELSE [ok |-> TRUE, rows |-> vals \cup {[ID |-> NextID(vals), value |-> v]}]

\* INSERT INTO keys(key, valueID) VALUES (?, ?): UNIQUE on key; the foreign
\* key is declared but SQLite does not enforce it (PRAGMA foreign_keys is off).
InsertKey(keys, k, id) ==
  IF \E r \in keys : r.key = k
  THEN [ok |-> FALSE, rows |-> keys]
  ELSE [ok |-> TRUE, rows |-> keys \cup {[key |-> k, valueID |-> id]}]

\* executemany: the statement is run once per entry, in order; the first
\* failing entry raises and the rows of the entries before it stay inserted.
RECURSIVE ExecManyVals(_, _)
ExecManyVals(vals, entries) ==
  IF entries = <<>> THEN [ok |-> TRUE, rows |-> vals]
  ELSE LET r == InsertVal(vals, Head(entries))
       IN IF r.ok THEN ExecManyVals(r.rows, Tail(entries)) ELSE r

RECURSIVE ExecManyKeys(_, _)
ExecManyKeys(keys, entries) ==
  IF entries = <<>> THEN [ok |-> TRUE, rows |-> keys]
  ELSE LET r == InsertKey(keys, Head(entries)[1], Head(entries)[2])
       IN IF r.ok THEN ExecManyKeys(r.rows, Tail(entries)) ELSE r

\* SELECT keys.key, vals.value FROM keys INNER JOIN vals ON vals.ID=keys.valueID
\* WHERE keys.key=(?) ; fetchone() ; row['value']  (None when there is no row)
JoinValue(keys, vals, k) ==
  LET hit == {v \in vals : \E r \in keys : r.key = k /\ r.valueID = v.ID}
  IN IF hit = {} THEN None
     ELSE (CHOOSE v \in hit : \A w \in hit : v.ID <= w.ID).value

\* Mutant: the truthiness test "if not self.get(key)".
KeyPresentTruthy(keys, vals, k) == JoinValue(keys, vals, k) \notin {None, ""}

\* __setitem__'s test "self.get(key) is None", negated.
KeyPresent(keys, vals, k) == JoinValue(keys, vals, k) # None

\* Mutant: an engine that follows SQL92 and rejects the empty list "IN ()".
InListStrict(n) == n > 0

\* "... WHERE value IN ({})".format(','.join(['?']*n)): whether the engine
\* accepts a list of n placeholders.  SQLite accepts every n, also "IN ()".
InListOK(n) == n >= 0

\* What connection c reads: the committed rows and those of its transaction.
Vals(c) == dvals \cup pendV[c]

KeysT(c) == dkeys \cup pendK[c]

\* ------------------------------------------------- the code's local values
MapKeys(m) == {m[i][1] : i \in DOMAIN m}

MapValues(m) == {m[i][2] : i \in DOMAIN m}

EmptyIds == [v \in {} |-> 0]

NoTables == [vals |-> {}, keys |-> {}]

\* The two tables as connection c reads them.
View(c) == [vals |-> Vals(c), keys |-> KeysT(c)]

NoCall == [op |-> "none", key |-> None, value |-> None]

Running == [status |-> "running", ret |-> None]

Returned(x) == [status |-> "ok", ret |-> x]

Raised(e) == [status |-> e, ret |-> None]

\* putmany, first query: the IDs of the mapping's values that are stored.
StoredIds(vals, m) ==
  [v \in {w \in MapValues(m) : \E r \in vals : r.value = w} |-> SelectVal(vals, v).ID]

\* putmany, "We add the others": one entry per ITEM of the mapping whose
\* value was not found, in iteration order (a value shared by two items
\* is appended twice).
ValEntries(m, ids) ==
  LET Missing(p) == p[2] \notin DOMAIN ids
      sel == SelectSeq(m, Missing)
  IN [i \in 1..Len(sel) |-> sel[i][2]]

\* Mutant: the new IDs guessed from the largest rowid instead of read back.
ResolvedIdsNext(vals, m, ids) ==
  LET rest == {v \in MapValues(m) : v \notin DOMAIN ids}
  IN [v \in DOMAIN ids \cup rest |->
        IF v \in DOMAIN ids THEN ids[v] ELSE NextID(vals)]

\* putmany, "get back their row IDs": query the values that were not found
\* by the first query and add what is found to value_ids.
ResolvedIds(vals, m, ids) ==
  LET rest == {v \in MapValues(m) : v \notin DOMAIN ids}
      got == {v \in rest : \E r \in vals : r.value = v}
  IN [v \in DOMAIN ids \cup got |->
        IF v \in DOMAIN ids THEN ids[v] ELSE SelectVal(vals, v).ID]

\* putmany, "What keys for we already have in the store?"
AlreadyThere(keys, m) == {k \in MapKeys(m) : \E r \in keys : r.key = k}

\* putmany, "Let's add the others!": the items whose key is not stored.
KeyItems(m, there) ==
  LET Absent(p) == p[1] \notin there
  IN SelectSeq(m, Absent)

\* Mutant: the position in the batch taken for the row ID.
KeyEntriesByPosition(m, ids, there) ==
  LET sel == KeyItems(m, there)
  IN [i \in 1..Len(sel) |-> <<sel[i][1], i>>]

KeyEntries(m, ids, there) ==
  LET sel == KeyItems(m, there)
  IN [i \in 1..Len(sel) |-> <<sel[i][1], ids[sel[i][2]]>>]

\* ---------------------------------------------------------------- actions
Init ==
  /\ tables = {"vals", "keys"}
  /\ dvals = {}
  /\ dkeys = {}
  /\ pendV = [c \in Conns |-> {}]
  /\ pendK = [c \in Conns |-> {}]
  /\ intx = [c \in Conns |-> FALSE]
  /\ pc = [c \in Conns |-> IF c = 1 THEN "idle" ELSE "closed"]
  /\ call = [c \in Conns |-> NoCall]
  /\ mapping = [c \in Conns |-> NoMapping]
  /\ entry = [c \in Conns |-> NoTables]
  /\ value_ids = [c \in Conns |-> EmptyIds]
  /\ already_there = [c \in Conns |-> {}]
  /\ row = [c \in Conns |-> NoRow]
  /\ res = [c \in Conns |-> Returned(None)]

\* Mutant: conn.rollback() where the code commits.
CommitAsRollback(c) ==
  /\ UNCHANGED <<dvals, dkeys>>
  /\ pendV' = [pendV EXCEPT ![c] = {}]
  /\ pendK' = [pendK EXCEPT ![c] = {}]
  /\ intx' = [intx EXCEPT ![c] = FALSE]

\* conn.commit(): the rows of c's transaction become rows of the file.
Commit(c) ==
  /\ dvals' = dvals \cup pendV[c]
  /\ dkeys' = dkeys \cup pendK[c]
  /\ pendV' = [pendV EXCEPT ![c] = {}]
  /\ pendK' = [pendK EXCEPT ![c] = {}]
  /\ intx' = [intx EXCEPT ![c] = FALSE]

NoWrite == UNCHANGED <<tables, dvals, dkeys, pendV, pendK, intx>>

\* The call ends: its locals are gone, its outcome is r.
Finish(c, r) ==
  /\ res' = [res EXCEPT ![c] = r]
  /\ mapping' = [mapping EXCEPT ![c] = NoMapping]
  /\ entry' = [entry EXCEPT ![c] = NoTables]
  /\ value_ids' = [value_ids EXCEPT ![c] = EmptyIds]
  /\ already_there' = [already_there EXCEPT ![c] = {}]
  /\ row' = [row EXCEPT ![c] = NoRow]

Return(c, r) ==
  /\ pc' = [pc EXCEPT ![c] = "idle"]
  /\ Finish(c, r)

\* Mutant: the missing key answered with None instead of raising.
GetitemLenient(c, k) ==
  /\ pc[c] = "idle"
  /\ call' = [call EXCEPT ![c] = [NoCall EXCEPT !.op = "getitem"]]
  /\ Return(c, Returned(JoinValue(KeysT(c), Vals(c), k)))
  /\ NoWrite

\* db[key]
Getitem(c, k) ==
  /\ pc[c] = "idle"
  /\ call' = [call EXCEPT ![c] = [NoCall EXCEPT !.op = "getitem"]]
  /\ LET v == JoinValue(KeysT(c), Vals(c), k)
     IN Return(c, IF v = None THEN Raised("KeyError") ELSE Returned(v))
  /\ NoWrite

\* Mutant: "return row['value'] or default", an empty value taken for none.
GetFalsy(c, k, d) ==
  /\ pc[c] = "idle"
  /\ call' = [call EXCEPT ![c] = [NoCall EXCEPT !.op = "get"]]
  /\ LET v == JoinValue(KeysT(c), Vals(c), k)
     IN Return(c, IF v \in {None, ""} THEN Returned(d) ELSE Returned(v))
  /\ NoWrite

\* db.get(key, default)
Get(c, k, d) ==
  /\ pc[c] = "idle"
  /\ call' = [call EXCEPT ![c] = [NoCall EXCEPT !.op = "get"]]
  /\ LET v == JoinValue(KeysT(c), Vals(c), k)
     IN Return(c, IF v = None THEN Returned(d) ELSE Returned(v))
  /\ NoWrite

\* Mutant: the "obvious completion", the key row is removed.
DeleteRemoves(c, k) ==
  /\ pc[c] = "idle"
  /\ call' = [call EXCEPT ![c] = [NoCall EXCEPT !.op = "delete"]]
  /\ Return(c, Returned(None))
  /\ dkeys' = {r \in dkeys : r.key # k}
  /\ pendK' = [pendK EXCEPT ![c] = {r \in pendK[c] : r.key # k}]
  /\ UNCHANGED <<tables, dvals, pendV, intx>>

\* db.delete(key)
Delete(c, k) ==
  /\ pc[c] = "idle"
  /\ call' = [call EXCEPT ![c] = [NoCall EXCEPT !.op = "delete"]]
  /\ Return(c, Raised("NotImplementedError"))
  /\ NoWrite

\* Mutant: the value resolved before the key is looked up, as putmany does.
SetitemBeginValueFirst(c, k, v) ==
  /\ pc[c] = "idle"
  /\ call' = [call EXCEPT ![c] = [NoCall EXCEPT !.op = "put", !.key = k, !.value = v]]
  /\ UNCHANGED <<tables, dvals, dkeys, pendK>>
  /\ LET ins == InsertVal(Vals(c), v)
     IN /\ pendV' = [pendV EXCEPT ![c] = ins.rows \ dvals]
        /\ intx' = [intx EXCEPT ![c] = intx[c] \/ ins.ok]
        /\ IF KeyPresent(KeysT(c), Vals(c), k)
           THEN Return(c, Returned(None))
           ELSE /\ pc' = [pc EXCEPT ![c] = "put_commit1"]
                /\ res' = [res EXCEPT ![c] = Running]
                /\ entry' = [entry EXCEPT ![c] = View(c)]
                /\ UNCHANGED <<mapping, value_ids, already_there, row>>

\* db.put(key, value), i.e. db[key] = value, up to the first INSERT:
\* the key is looked up with get(); a stored key ends the call; else the
\* value is looked up and, when it is not stored, inserted.
SetitemBegin(c, k, v) ==
  /\ pc[c] = "idle"
  /\ call' = [call EXCEPT ![c] = [NoCall EXCEPT !.op = "put", !.key = k, !.value = v]]
  /\ UNCHANGED <<tables, dvals, dkeys, pendK>>
  /\ IF KeyPresent(KeysT(c), Vals(c), k)
     THEN /\ Return(c, Returned(None))
          /\ UNCHANGED <<pendV, intx>>
     ELSE LET found == SelectVal(Vals(c), v)
              ins == InsertVal(Vals(c), v)
          IN IF found # NoRow
             THEN /\ pc' = [pc EXCEPT ![c] = "put_keys"]
                  /\ row' = [row EXCEPT ![c] = found]
                  /\ res' = [res EXCEPT ![c] = Running]
                  /\ entry' = [entry EXCEPT ![c] = View(c)]
                  /\ UNCHANGED <<pendV, intx, mapping, value_ids, already_there>>
             ELSE /\ pendV' = [pendV EXCEPT ![c] = ins.rows \ dvals]
                  /\ intx' = [intx EXCEPT ![c] = TRUE]
                  /\ IF ins.ok
                     THEN /\ pc' = [pc EXCEPT ![c] = "put_commit1"]
                          /\ res' = [res EXCEPT ![c] = Running]
                          /\ entry' = [entry EXCEPT ![c] = View(c)]
                          /\ UNCHANGED <<mapping, value_ids, already_there, row>>
                     ELSE Return(c, Raised("IntegrityError"))

\* __setitem__: commit the value row and read it back.
SetitemCommit1(c) ==
  /\ pc[c] = "put_commit1"
  /\ Commit(c)
  /\ row' = [row EXCEPT ![c] = SelectVal(dvals \cup pendV[c], call[c].value)]
  /\ pc' = [pc EXCEPT ![c] = "put_keys"]
  /\ UNCHANGED <<tables, call, mapping, entry, value_ids, already_there, res>>

\* __setitem__: INSERT INTO keys(key, valueID) VALUES (key, row['ID'])
SetitemKeys(c) ==
  /\ pc[c] = "put_keys"
  /\ UNCHANGED <<tables, dvals, dkeys, pendV, call>>
  /\ IF row[c] = NoRow
     THEN /\ Return(c, Raised("TypeError"))
          /\ UNCHANGED <<pendK, intx>>
     ELSE LET ins == InsertKey(KeysT(c), call[c].key, row[c].ID)
          IN /\ pendK' = [pendK EXCEPT ![c] = ins.rows \ dkeys]
             /\ intx' = [intx EXCEPT ![c] = TRUE]
             /\ IF ins.ok
                THEN /\ pc' = [pc EXCEPT ![c] = "put_commit2"]
                     /\ UNCHANGED <<mapping, entry, value_ids, already_there, row, res>>
                ELSE Return(c, Raised("IntegrityError"))

\* __setitem__: the final commit; the call returns.
SetitemCommit2(c) ==
  /\ pc[c] = "put_commit2"
  /\ Commit(c)
  /\ Return(c, Returned(None))
  /\ UNCHANGED <<tables, call>>

\* db.putmany(mapping) up to executemany("INSERT INTO vals ...").
PutmanyBegin(c, m) ==
  /\ pc[c] = "idle"
  /\ call' = [call EXCEPT ![c] = [NoCall EXCEPT !.op = "putmany"]]
  /\ UNCHANGED <<tables, dvals, dkeys, pendK>>
  /\ LET ids == StoredIds(Vals(c), m)
         entries == ValEntries(m, ids)
         ins == ExecManyVals(Vals(c), entries)
     IN IF ~InListOK(Cardinality(MapValues(m)))
        THEN /\ Return(c, Raised("OperationalError"))
             /\ UNCHANGED <<pendV, intx>>
        ELSE /\ pendV' = [pendV EXCEPT ![c] = ins.rows \ dvals]
             /\ intx' = [intx EXCEPT ![c] = intx[c] \/ entries # <<>>]
             /\ IF ins.ok
                THEN /\ pc' = [pc EXCEPT ![c] = "pm_commit1"]
                     /\ mapping' = [mapping EXCEPT ![c] = m]
                     /\ entry' = [entry EXCEPT ![c] = View(c)]
                     /\ value_ids' = [value_ids EXCEPT ![c] = ids]
                     /\ UNCHANGED already_there
                     /\ res' = [res EXCEPT ![c] = Running]
                     /\ UNCHANGED row
                ELSE Return(c, Raised("IntegrityError"))

\* putmany: the commit after the value inserts.
PutmanyCommit1(c) ==
  /\ pc[c] = "pm_commit1"
  /\ Commit(c)
  /\ pc' = [pc EXCEPT ![c] = "pm_keys"]
  /\ UNCHANGED <<tables, call, mapping, entry, value_ids, already_there, row, res>>

\* putmany: read the new IDs back, find the stored keys, and
\* executemany("INSERT INTO keys ...") for the others.
PutmanyKeys(c) ==
  /\ pc[c] = "pm_keys"
  /\ UNCHANGED <<tables, dvals, dkeys, pendV, call>>
  /\ LET m == mapping[c]
         ids == ResolvedIds(Vals(c), m, value_ids[c])
         there == AlreadyThere(KeysT(c), m)
         rest == {v \in MapValues(m) : v \notin DOMAIN value_ids[c]}
     IN IF ~InListOK(Cardinality(rest)) \/ ~InListOK(Cardinality(MapKeys(m)))
        THEN /\ Return(c, Raised("OperationalError"))
             /\ UNCHANGED <<pendK, intx>>
        ELSE IF \E p \in {KeyItems(m, there)[i] : i \in DOMAIN KeyItems(m, there)} :
              p[2] \notin DOMAIN ids
        THEN /\ Return(c, Raised("KeyError"))
             /\ UNCHANGED <<pendK, intx>>
        ELSE LET entries == KeyEntries(m, ids, there)
                 ins == ExecManyKeys(KeysT(c), entries)
             IN /\ pendK' = [pendK EXCEPT ![c] = ins.rows \ dkeys]
                /\ intx' = [intx EXCEPT ![c] = intx[c] \/ entries # <<>>]
                /\ IF ins.ok
                   THEN /\ pc' = [pc EXCEPT ![c] = "pm_commit2"]
                        /\ value_ids' = [value_ids EXCEPT ![c] = ids]
                        /\ UNCHANGED already_there
                        /\ UNCHANGED <<mapping, entry, row, res>>
                   ELSE Return(c, Raised("IntegrityError"))

\* Mutant: putmany returns after the key inserts without committing them.
PutmanyCommit2NoCommit(c) ==
  /\ pc[c] = "pm_commit2"
  /\ Return(c, Returned(None))
  /\ UNCHANGED <<tables, dvals, dkeys, pendV, pendK, intx, call>>

\* putmany: the commit after the key inserts; the call returns.
PutmanyCommit2(c) ==
  /\ pc[c] = "pm_commit2"
  /\ Commit(c)
  /\ Return(c, Returned(None))
  /\ UNCHANGED <<tables, call>>

\* db.close(): commit, then close the connection.
Close(c) ==
  /\ pc[c] = "idle"
  /\ Commit(c)
  /\ call' = [call EXCEPT ![c] = [NoCall EXCEPT !.op = "close"]]
  /\ Finish(c, Returned(None))
  /\ pc' = [pc EXCEPT ![c] = "closed"]
  /\ UNCHANGED tables

\* Mutant: the tables created without looking at sqlite_master
\* (dropped and made anew).
OpenRecreate(c) ==
  /\ pc[c] = "closed"
  /\ tables' = {"vals", "keys"}
  /\ dvals' = {}
  /\ dkeys' = {}
  /\ pendV' = [pendV EXCEPT ![c] = {}]
  /\ pendK' = [pendK EXCEPT ![c] = {}]
  /\ intx' = [intx EXCEPT ![c] = FALSE]
  /\ call' = [call EXCEPT ![c] = [NoCall EXCEPT !.op = "open"]]
  /\ Return(c, Returned(None))

\* KV(dbfile): connect and create the tables the file does not have.
Open(c) ==
  /\ pc[c] = "closed"
  /\ tables' = tables \cup {"vals", "keys"}
  /\ dvals' = IF "vals" \in tables THEN dvals ELSE {}
  /\ dkeys' = IF "keys" \in tables THEN dkeys ELSE {}
  /\ pendV' = [pendV EXCEPT ![c] = {}]
  /\ pendK' = [pendK EXCEPT ![c] = {}]
  /\ intx' = [intx EXCEPT ![c] = FALSE]
  /\ call' = [call EXCEPT ![c] = [NoCall EXCEPT !.op = "open"]]
  /\ Return(c, Returned(None))

\* The process dies while c is open, at any statement: SQLite rolls the
\* open transaction back, the committed rows stay.  res keeps where it died.
Crash(c) ==
  /\ pc[c] # "closed"
  /\ pendV' = [pendV EXCEPT ![c] = {}]
  /\ pendK' = [pendK EXCEPT ![c] = {}]
  /\ intx' = [intx EXCEPT ![c] = FALSE]
  /\ call' = [call EXCEPT ![c] = [NoCall EXCEPT !.op = "crash"]]
  /\ Finish(c, [status |-> "crash", ret |-> pc[c]])
  /\ pc' = [pc EXCEPT ![c] = "closed"]
  /\ UNCHANGED <<tables, dvals, dkeys>>

\* ------------------------------------------------- two connections
\* SQLite's write lock: a statement that writes needs the RESERVED lock,
\* which a connection with an open write transaction holds until it commits
\* or its process ends.
CanWrite(c) == \A d \in Conns \ {c} : ~intx[d]

\* __setitem__, the two SELECTs (self.get(key), then the value): a stored
\* key ends the call; row is the value's row, or None.
SetitemSelect(c, k, v) ==
  /\ pc[c] = "idle"
  /\ call' = [call EXCEPT ![c] = [NoCall EXCEPT !.op = "put", !.key = k, !.value = v]]
  /\ NoWrite
  /\ IF KeyPresent(KeysT(c), Vals(c), k)
     THEN Return(c, Returned(None))
     ELSE LET found == SelectVal(Vals(c), v)
          IN /\ pc' = [pc EXCEPT ![c] = IF found # NoRow THEN "put_keys" ELSE "put_insert"]
             /\ row' = [row EXCEPT ![c] = found]
             /\ res' = [res EXCEPT ![c] = Running]
             /\ UNCHANGED <<mapping, entry, value_ids, already_there>>

\* Mutant: a failed INSERT answered by fetching the row that is there.
SetitemInsertValOrFetch(c) ==
  /\ pc[c] = "put_insert"
  /\ CanWrite(c)
  /\ UNCHANGED <<tables, dvals, dkeys, pendK, call>>
  /\ LET ins == InsertVal(Vals(c), call[c].value)
     IN /\ pendV' = [pendV EXCEPT ![c] = ins.rows \ dvals]
        /\ intx' = [intx EXCEPT ![c] = TRUE]
        /\ pc' = [pc EXCEPT ![c] = IF ins.ok THEN "put_commit1" ELSE "put_keys"]
        /\ row' = [row EXCEPT ![c] = SelectVal(Vals(c), call[c].value)]
        /\ UNCHANGED <<mapping, entry, value_ids, already_there, res>>

\* __setitem__, "if row is None": INSERT INTO vals(value) VALUES (value).
\* The exception of a failed INSERT is not caught: the call ends with it.
SetitemInsertVal(c) ==
  /\ pc[c] = "put_insert"
  /\ CanWrite(c)
  /\ UNCHANGED <<tables, dvals, dkeys, pendK, call>>
  /\ LET ins == InsertVal(Vals(c), call[c].value)
     IN /\ pendV' = [pendV EXCEPT ![c] = ins.rows \ dvals]
        /\ intx' = [intx EXCEPT ![c] = TRUE]
        /\ IF ins.ok
           THEN /\ pc' = [pc EXCEPT ![c] = "put_commit1"]
                /\ UNCHANGED <<mapping, entry, value_ids, already_there, row, res>>
           ELSE Return(c, Raised("IntegrityError"))

\* putmany, the first query and the list of entries.
PutmanySelect(c, m) ==
  /\ pc[c] = "idle"
  /\ call' = [call EXCEPT ![c] = [NoCall EXCEPT !.op = "putmany"]]
  /\ NoWrite
  /\ IF ~InListOK(Cardinality(MapValues(m)))
     THEN Return(c, Raised("OperationalError"))
     ELSE /\ pc' = [pc EXCEPT ![c] = "pm_insert"]
          /\ mapping' = [mapping EXCEPT ![c] = m]
          /\ value_ids' = [value_ids EXCEPT ![c] = StoredIds(Vals(c), m)]
          /\ res' = [res EXCEPT ![c] = Running]
          /\ UNCHANGED <<entry, already_there, row>>

\* putmany: executemany("INSERT INTO vals(value) VALUES (?)", entries).
PutmanyInsertVals(c) ==
  /\ pc[c] = "pm_insert"
  /\ UNCHANGED <<tables, dvals, dkeys, pendK, call>>
  /\ LET entries == ValEntries(mapping[c], value_ids[c])
         ins == ExecManyVals(Vals(c), entries)
     IN /\ entries # <<>> => CanWrite(c)
        /\ pendV' = [pendV EXCEPT ![c] = ins.rows \ dvals]
        /\ intx' = [intx EXCEPT ![c] = intx[c] \/ entries # <<>>]
        /\ IF ins.ok
           THEN /\ pc' = [pc EXCEPT ![c] = "pm_commit1"]
                /\ UNCHANGED <<mapping, entry, value_ids, already_there, row, res>>
           ELSE Return(c, Raised("IntegrityError"))

\* putmany: read the new IDs back and ask which keys are stored.
PutmanyKeySelect(c) ==
  /\ pc[c] = "pm_keys"
  /\ NoWrite
  /\ UNCHANGED call
  /\ LET m == mapping[c]
         rest == {v \in MapValues(m) : v \notin DOMAIN value_ids[c]}
     IN IF ~InListOK(Cardinality(rest)) \/ ~InListOK(Cardinality(MapKeys(m)))
        THEN Return(c, Raised("OperationalError"))
        ELSE /\ pc' = [pc EXCEPT ![c] = "pm_keyinsert"]
             /\ value_ids' = [value_ids EXCEPT ![c] = ResolvedIds(Vals(c), m, value_ids[c])]
             /\ already_there' = [already_there EXCEPT ![c] = AlreadyThere(KeysT(c), m)]
             /\ UNCHANGED <<mapping, entry, row, res>>

\* putmany: executemany("INSERT INTO keys(key, valueID) VALUES (?, ?)", entries).
PutmanyInsertKeys(c) ==
  /\ pc[c] = "pm_keyinsert"
  /\ UNCHANGED <<tables, dvals, dkeys, pendV, call>>
  /\ LET m == mapping[c]
         items == KeyItems(m, already_there[c])
     IN IF \E i \in DOMAIN items : items[i][2] \notin DOMAIN value_ids[c]
        THEN /\ Return(c, Raised("KeyError"))
             /\ UNCHANGED <<pendK, intx>>
        ELSE LET entries == KeyEntries(m, value_ids[c], already_there[c])
                 ins == ExecManyKeys(KeysT(c), entries)
             IN /\ entries # <<>> => CanWrite(c)
                /\ pendK' = [pendK EXCEPT ![c] = ins.rows \ dkeys]
                /\ intx' = [intx EXCEPT ![c] = intx[c] \/ entries # <<>>]
                /\ IF ins.ok
                   THEN /\ pc' = [pc EXCEPT ![c] = "pm_commit2"]
                        /\ UNCHANGED <<mapping, entry, value_ids, already_there, row, res>>
                   ELSE Return(c, Raised("IntegrityError"))

\* The INSERT c is at finds the database locked by another connection's
\* open transaction until the busy timeout (5 s) is over:
\* sqlite3.OperationalError, "database is locked". c has written nothing
\* and holds no lock.
Busy(c) ==
  /\ \/ pc[c] \in {"put_insert", "put_keys"}
     \/ pc[c] = "pm_insert" /\ ValEntries(mapping[c], value_ids[c]) # <<>>
     \/ pc[c] = "pm_keyinsert" /\ KeyItems(mapping[c], already_there[c]) # <<>>
  /\ ~CanWrite(c)
  /\ NoWrite
  /\ UNCHANGED call
  /\ Return(c, Raised("OperationalError"))

\* No caller catches the exception: the process of c ends.
Abort(c) ==
  /\ pc[c] = "idle"
  /\ res[c].status \in {"IntegrityError", "OperationalError"}
  /\ Crash(c)

\* The mappings the racing writers pass to putmany.
RaceMappings == {m \in Mappings : Len(m) <= RaceBatch}

\* Two connections on one file, each running put and putmany, their
\* statements interleaved in every order the lock allows.
InitRace ==
  /\ tables = {"vals", "keys"}
  /\ dvals = {}
  /\ dkeys = {}
  /\ pendV = [c \in Conns |-> {}]
  /\ pendK = [c \in Conns |-> {}]
  /\ intx = [c \in Conns |-> FALSE]
  /\ pc = [c \in Conns |-> "idle"]
  /\ call = [c \in Conns |-> NoCall]
  /\ mapping = [c \in Conns |-> NoMapping]
  /\ entry = [c \in Conns |-> NoTables]
  /\ value_ids = [c \in Conns |-> EmptyIds]
  /\ already_there = [c \in Conns |-> {}]
  /\ row = [c \in Conns |-> NoRow]
  /\ res = [c \in Conns |-> Returned(None)]

NextRace ==
  \E c \in Conns :
    \/ /\ res[c].status = "ok"
       /\ \E k \in Keys, v \in Values : SetitemSelect(c, k, v)
    \/ SetitemInsertVal(c)
    \/ SetitemCommit1(c)
    \/ CanWrite(c) /\ SetitemKeys(c)
    \/ SetitemCommit2(c)
    \/ /\ res[c].status = "ok"
       /\ \E m \in RaceMappings : PutmanySelect(c, m)
    \/ PutmanyInsertVals(c)
    \/ PutmanyCommit1(c)
    \/ PutmanyKeySelect(c)
    \/ PutmanyInsertKeys(c)
    \/ PutmanyCommit2(c)
    \/ Busy(c)
    \/ Abort(c)

SpecRace == InitRace /\ [][NextRace]_vars

\* The single writer of the store.
Writer == 1

Next ==
  \/ \E k \in Keys : Getitem(Writer, k)
  \/ \E k \in Keys, d \in Defaults : Get(Writer, k, d)
  \/ \E k \in Keys : Delete(Writer, k)
  \/ \E k \in Keys, v \in Values : SetitemBegin(Writer, k, v)
  \/ SetitemCommit1(Writer)
  \/ SetitemKeys(Writer)
  \/ SetitemCommit2(Writer)
  \/ \E m \in Mappings : PutmanyBegin(Writer, m)
  \/ PutmanyCommit1(Writer)
  \/ PutmanyKeys(Writer)
  \/ PutmanyCommit2(Writer)
  \/ Close(Writer)
  \/ Open(Writer)

Spec == Init /\ [][Next]_vars

\* Before the first KV(dbfile): the file does not exist, nothing is open.
InitFresh ==
  /\ tables = {}
  /\ dvals = {}
  /\ dkeys = {}
  /\ pendV = [c \in Conns |-> {}]
  /\ pendK = [c \in Conns |-> {}]
  /\ intx = [c \in Conns |-> FALSE]
  /\ pc = [c \in Conns |-> "closed"]
  /\ call = [c \in Conns |-> NoCall]
  /\ mapping = [c \in Conns |-> NoMapping]
  /\ entry = [c \in Conns |-> NoTables]
  /\ value_ids = [c \in Conns |-> EmptyIds]
  /\ already_there = [c \in Conns |-> {}]
  /\ row = [c \in Conns |-> NoRow]
  /\ res = [c \in Conns |-> Returned(None)]

\* The single writer, from the first open of a fresh path on.
SpecLife == InitFresh /\ [][Next]_vars

\* The single writer, with a process that may die at any point.
NextCrash ==
  \/ Next
  \/ Crash(Writer)

SpecCrash == Init /\ [][NextCrash]_vars

TypeOK ==
  /\ tables \subseteq {"vals", "keys"}
  /\ \A r \in dvals : r.ID \in Nat \ {0} /\ r.value \in Values
  /\ \A r \in dkeys : r.key \in Keys /\ r.valueID \in Nat
  /\ \A c \in Conns : pc[c] \in {"closed", "idle", "put_commit1", "put_keys",
                                  "put_commit2", "pm_commit1", "pm_keys", "pm_commit2",
                                  "put_insert", "pm_insert", "pm_keyinsert"}

\* ------------------------------------------- put as one uninterrupted run
\* The tables after db.put(k, v) ran from db to its end with no other
\* connection in between (ok: no statement raised).
PutRun(db, k, v) ==
  IF KeyPresent(db.keys, db.vals, k)
  THEN [ok |-> TRUE, vals |-> db.vals, keys |-> db.keys]
  ELSE LET found == SelectVal(db.vals, v)
           ins == InsertVal(db.vals, v)
           vals1 == IF found # NoRow THEN db.vals ELSE ins.rows
           r == IF found # NoRow THEN found ELSE SelectVal(vals1, v)
           kins == InsertKey(db.keys, k, r.ID)
       IN IF found = NoRow /\ ~ins.ok
          THEN [ok |-> FALSE, vals |-> db.vals, keys |-> db.keys]
          ELSE [ok |-> kins.ok, vals |-> vals1, keys |-> kins.rows]

\* for k, v in items: db.put(k, v)
RECURSIVE PutSeq(_, _)
PutSeq(db, items) ==
  IF items = <<>> THEN [ok |-> TRUE, vals |-> db.vals, keys |-> db.keys]
  ELSE LET r == PutRun(db, Head(items)[1], Head(items)[2])
       IN IF r.ok THEN PutSeq([vals |-> r.vals, keys |-> r.keys], Tail(items))
          ELSE r

\* The iteration orders of a mapping.
Orders(m) ==
  {[i \in DOMAIN m |-> m[p[i]]] :
     p \in {q \in [DOMAIN m -> DOMAIN m] : \A i, j \in DOMAIN m : i # j => q[i] # q[j]}}

\* What a caller can observe of the tables: the content get() returns for
\* every key, and how many rows of vals hold each content (row IDs depend on
\* the order of insertion and are not part of it).
Observable(db) ==
  [content |-> [k \in Keys |-> JoinValue(db.keys, db.vals, k)],
   rows |-> [v \in Values |-> Cardinality({r \in db.vals : r.value = v})]]

\* ----------------------------------------------------------------- claims
W == Writer

GetOf(c, k) == JoinValue(KeysT(c), Vals(c), k)

HasKeyRow(c, k) == \E r \in KeysT(c) : r.key = k

Contents(vals) == {r.value : r \in vals}

PutPcs == {"put_commit1", "put_keys", "put_commit2"}

PmPcs == {"pm_commit1", "pm_keys", "pm_commit2"}

Errors == {"KeyError", "IntegrityError", "NotImplementedError", "TypeError",
           "OperationalError"}

\* A put that ran to its end has done what PutRun computes from the tables
\* it found (the step-by-step actions and the one-run operator agree).
PutRunAgrees ==
  [][pc[W] \in PutPcs /\ pc'[W] = "idle" /\ res'[W].status = "ok" =>
       LET r == PutRun(entry[W], call[W].key, call[W].value)
       IN r.ok /\ r.vals = Vals(W)' /\ r.keys = KeysT(W)']_vars

\* C1: write-once per key. Once get(k) yields a value, no step of put,
\* putmany, get, delete, close or open changes what get(k) yields; and a put
\* on a key that has a value is a successful no-op: it returns at once,
\* without error, and changes neither table.
C1_WriteOnce ==
  [][/\ \A k \in Keys : GetOf(W, k) # None => GetOf(W, k)' = GetOf(W, k)
     /\ \A k \in Keys, v \in Values :
          SetitemBegin(W, k, v) /\ GetOf(W, k) # None =>
            /\ pc'[W] = "idle"
            /\ res'[W] = Returned(None)
            /\ View(W)' = View(W)]_vars

\* C1 witness: put(k, v2) has returned without error on a key that holds
\* another value v, and get(k) is still v.
C1_Witness ==
  /\ pc[W] = "idle" /\ call[W].op = "put" /\ res[W].status = "ok"
  /\ GetOf(W, call[W].key) \notin {None, call[W].value}

\* C2: round trip. put(k, v) on a key k that has no key row never raises,
\* whatever v is and whatever is stored, and when it returns get(k) is v.
C2_RoundTrip ==
  [][/\ \A k \in Keys, v \in Values :
          SetitemBegin(W, k, v) /\ ~HasKeyRow(W, k) =>
            pc'[W] \in {"put_commit1", "put_keys"} /\ res'[W].status = "running"
     /\ pc[W] \in PutPcs =>
          /\ res'[W].status \notin Errors
          /\ pc'[W] = "idle" =>
               /\ res'[W].status = "ok"
               /\ GetOf(W, call[W].key)' = call[W].value]_vars

\* C2 witness: a put has returned, its key yields its value, and the same
\* value is also held by another key.
C2_Witness ==
  /\ pc[W] = "idle" /\ call[W].op = "put" /\ res[W].status = "ok"
  /\ GetOf(W, call[W].key) = call[W].value
  /\ \E k \in Keys \ {call[W].key} : GetOf(W, k) = call[W].value

\* No two rows of vals have the same content or the same ID, and two keys
\* that yield the same content reference the same row.
Dedup(vals, keys) ==
  /\ \A r, q \in vals : (r.value = q.value \/ r.ID = q.ID) => r = q
  /\ \A r, q \in keys :
       JoinValue(keys, vals, r.key) # None
       /\ JoinValue(keys, vals, r.key) = JoinValue(keys, vals, q.key)
       => r.valueID = q.valueID

\* C3: value deduplication with a single writer. In every state Dedup
\* holds of the tables as the writer reads them and as they are committed;
\* and the number of rows of vals grows by exactly one when a put of an
\* absent key brings a content that is not stored, by none when the content
\* is stored, and by the number of distinct new contents when a putmany
\* gets past its value inserts.
C3_Dedup ==
  /\ [](Dedup(Vals(W), KeysT(W)) /\ Dedup(dvals, dkeys))
  /\ [][/\ \A k \in Keys, v \in Values :
             SetitemBegin(W, k, v) /\ ~HasKeyRow(W, k) =>
               Cardinality(Vals(W)') = Cardinality(Vals(W))
                 + (IF v \in Contents(Vals(W)) THEN 0 ELSE 1)
        /\ \A m \in Mappings :
             PutmanyBegin(W, m) /\ pc'[W] = "pm_commit1" =>
               Cardinality(Vals(W)') = Cardinality(Vals(W))
                 + Cardinality(MapValues(m) \ Contents(Vals(W)))
        /\ pc[W] \in PutPcs \cup PmPcs => Vals(W)' = Vals(W)]_vars

\* C3 witness: two keys hold the same content through one row, and vals
\* has fewer rows than keys has.
C3_Witness ==
  /\ pc[W] = "idle"
  /\ \E r, q \in KeysT(W) : r.key # q.key /\ r.valueID = q.valueID
                            /\ GetOf(W, r.key) = GetOf(W, q.key)
                            /\ GetOf(W, r.key) # None
  /\ Cardinality(Vals(W)) < Cardinality(KeysT(W))

\* Every row of keys references exactly one row of vals.
RefIntegrity(vals, keys) ==
  \A r \in keys : Cardinality({v \in vals : v.ID = r.valueID}) = 1

\* C4: referential integrity, in every state, the states between the
\* statements of put and putmany included: every key row references exactly
\* one value row, in the tables as the writer reads them and in the
\* committed tables.
C4_RefIntegrity ==
  RefIntegrity(Vals(W), KeysT(W)) /\ RefIntegrity(dvals, dkeys)

\* C4 witness: putmany has inserted key rows and not yet committed them.
C4_Witness ==
  /\ pc[W] = "pm_commit2"
  /\ Cardinality(pendK[W]) = 2
  /\ dkeys # {}

\* C5 (as claimed): batch equivalence. A putmany of a mapping none of whose
\* keys is stored never raises, and when it returns the tables are
\* observably what the puts of its items, in any order, make of the tables
\* it found.
C5_BatchEquivalence ==
  [][/\ \A m \in Mappings :
          PutmanyBegin(W, m) /\ AlreadyThere(KeysT(W), m) = {} =>
            pc'[W] = "pm_commit1"
     /\ pc[W] \in PmPcs /\ AlreadyThere(entry[W].keys, mapping[W]) = {} =>
          /\ res'[W].status \notin Errors
          /\ pc'[W] = "idle" =>
               \A s \in Orders(mapping[W]) :
                 /\ PutSeq(entry[W], s).ok
                 /\ Observable(View(W)') = Observable(PutSeq(entry[W], s))]_vars

\* C6 (as claimed): putmany resolves values as a set. For every mapping the
\* value inserts succeed and leave exactly one row per content that was
\* stored or is a value of the mapping; the stored rows are kept; and the
\* call returns without error.
C6_ValuesAsSet ==
  [][/\ \A m \in Mappings :
          PutmanyBegin(W, m) =>
            /\ pc'[W] = "pm_commit1"
            /\ Vals(W) \subseteq Vals(W)'
            /\ Contents(Vals(W)') = Contents(Vals(W)) \cup MapValues(m)
            /\ Cardinality(Vals(W)') = Cardinality(Contents(Vals(W)'))
     /\ pc[W] \in PmPcs => res'[W].status \notin Errors]_vars

\* C7 (as claimed): putmany is insert-if-absent per key. No putmany raises;
\* the key rows it found stay as they are; and when it returns, keys holds
\* those rows and, for every item whose key had no row, one row that
\* references the row of the item's value.
C7_InsertIfAbsent ==
  [][/\ \A m \in Mappings :
          PutmanyBegin(W, m) => pc'[W] = "pm_commit1" /\ KeysT(W)' = KeysT(W)
     /\ pc[W] \in PmPcs =>
          /\ res'[W].status \notin Errors
          /\ entry[W].keys \subseteq KeysT(W)'
          /\ pc'[W] = "idle" =>
               KeysT(W)' = entry[W].keys \cup
                 {[key |-> p[1], valueID |-> SelectVal(Vals(W)', p[2]).ID] :
                    p \in {mapping[W][i] : i \in {j \in DOMAIN mapping[W] :
                       \A r \in entry[W].keys : r.key # mapping[W][j][1]}}}]_vars

\* C8: missing key. For a key with no key row, db[k] raises KeyError and
\* db.get(k, D) returns D; neither changes a table.
C8_MissingKey ==
  [][\A k \in Keys :
       ~HasKeyRow(W, k) =>
         /\ Getitem(W, k) =>
              res'[W] = Raised("KeyError") /\ View(W)' = View(W)
              /\ dvals' = dvals /\ dkeys' = dkeys
         /\ \A d \in Defaults :
              Get(W, k, d) =>
                res'[W] = Returned(d) /\ View(W)' = View(W)
                /\ dvals' = dvals /\ dkeys' = dkeys]_vars

\* C8 witness: db[k] has raised KeyError in a store that holds other keys.
C8_Witness ==
  /\ call[W].op = "getitem" /\ res[W].status = "KeyError"
  /\ KeysT(W) # {}

\* C9: delete(k) raises NotImplementedError whether or not k is stored and
\* changes neither table: every key yields afterwards what it yielded before.
C9_Delete ==
  [][\A k \in Keys :
       Delete(W, k) =>
         /\ res'[W] = Raised("NotImplementedError")
         /\ View(W)' = View(W) /\ dvals' = dvals /\ dkeys' = dkeys
         /\ \A j \in Keys : GetOf(W, j)' = GetOf(W, j)]_vars

\* C9 witness: delete has raised in a store that holds keys.
C9_Witness ==
  /\ call[W].op = "delete" /\ res[W].status = "NotImplementedError"
  /\ KeysT(W) # {}

\* C10: empty batch. putmany({}) raises at no statement, in an empty and in
\* a populated store, and leaves both tables as the writer reads them
\* unchanged; the committed tables change only when rows of an earlier,
\* failed call were still uncommitted.
C10_EmptyBatch ==
  [][/\ PutmanyBegin(W, <<>>) =>
          pc'[W] = "pm_commit1" /\ View(W)' = View(W)
          /\ dvals' = dvals /\ dkeys' = dkeys
     /\ pc[W] \in PmPcs /\ mapping[W] = <<>> =>
          /\ res'[W].status \notin Errors
          /\ View(W)' = View(W)
          /\ ~intx[W] => dvals' = dvals /\ dkeys' = dkeys
          /\ pc[W] = "pm_commit2" => pc'[W] = "idle" /\ res'[W].status = "ok"]_vars

\* C10 witness: putmany({}) is before its last commit in a populated store.
C10_Witness ==
  /\ pc[W] = "pm_commit2" /\ mapping[W] = <<>>
  /\ KeysT(W) # {}

\* C11: absent is distinguished from empty. For a key that holds the empty
\* string db[k] returns "" without error and db.get(k, D) returns "", not D;
\* db[k] raises KeyError, and db.get(k, D) returns D, only when k has no key
\* row.
C11_AbsentNotEmpty ==
  [][\A k \in Keys :
       /\ Getitem(W, k) =>
            /\ GetOf(W, k) = "" => res'[W] = Returned("")
            /\ res'[W].status = "KeyError" => ~HasKeyRow(W, k)
       /\ \A d \in Defaults :
            Get(W, k, d) =>
              /\ res'[W].status = "ok"
              /\ GetOf(W, k) = "" => res'[W].ret = ""
              /\ res'[W].ret = d => ~HasKeyRow(W, k)]_vars

\* C11 witness: db.get has returned the empty string that a key holds.
C11_Witness ==
  /\ call[W].op = "get" /\ res[W] = Returned("")
  /\ \E k \in Keys : GetOf(W, k) = ""

\* What get(k) yields from the committed tables alone.
DGet(k) == JoinValue(dkeys, dvals, k)

\* C12: crash atomicity of the two commit points. Whenever the process
\* dies, in put or putmany, between the value commit and the key commit or
\* elsewhere, every committed key row references a committed value row
\* (committed value rows without a key may exist), and no step, a crash
\* included, changes the value a committed key yields.
C12_CrashAtomicity ==
  /\ []RefIntegrity(dvals, dkeys)
  /\ [][\A k \in Keys : DGet(k) # None => DGet(k)' = DGet(k)]_vars

\* C12 witness: the process died between putmany's value commit and its key
\* insert; the file holds a key, and a value row that no key references.
C12_Witness ==
  /\ res[W].status = "crash" /\ res[W].ret = "pm_keys"
  /\ pc[W] = "closed"
  /\ dkeys # {}
  /\ \E v \in dvals : \A r \in dkeys : r.valueID # v.ID

\* C13: reopen preserves the store. close() leaves in the file exactly the
\* rows the connection read; KV(path) on a file that has both tables
\* creates and deletes nothing, and the new connection reads exactly the
\* rows of the file, so every key yields what it yielded before the close
\* and vals holds the same (ID, content) rows; KV(path) on a fresh path
\* creates both tables and every key is absent.
C13_Reopen ==
  [][/\ Close(W) =>
          dvals' = Vals(W) /\ dkeys' = KeysT(W) /\ tables' = tables
     /\ Open(W) =>
          /\ tables' = {"vals", "keys"}
          /\ tables = {"vals", "keys"} => dvals' = dvals /\ dkeys' = dkeys
          /\ tables = {} => \A k \in Keys : GetOf(W, k)' = None
          /\ Vals(W)' = dvals' /\ KeysT(W)' = dkeys'
          /\ \A k \in Keys : GetOf(W, k)' = DGet(k)]_vars

\* C13 witness: a store with two keys and two value rows has been closed
\* and opened again.
C13_Witness ==
  /\ pc[W] = "idle" /\ call[W].op = "open"
  /\ Cardinality(KeysT(W)) = 2 /\ Cardinality(Vals(W)) = 2

\* C15 (as claimed): put(k, v2) on a key that holds the empty string treats
\* the key as absent: it does not return at once but goes on to resolve the
\* value and to insert a key row.
C15_FalsyTreatedAbsent ==
  [][\A k \in Keys, v \in Values :
       SetitemBegin(W, k, v) /\ GetOf(W, k) = "" =>
         pc'[W] \in {"put_commit1", "put_keys"}]_vars

\* C15 (amended): put(k, v2) on a key that holds the empty string takes the
\* no-op branch, as on every present key: it returns at once without error,
\* creates no value row for v2 and inserts no key row.
C15_EmptyIsPresent ==
  [][\A k \in Keys, v \in Values :
       SetitemBegin(W, k, v) /\ GetOf(W, k) = "" =>
         /\ pc'[W] = "idle" /\ res'[W] = Returned(None)
         /\ Vals(W)' = Vals(W) /\ KeysT(W)' = KeysT(W)
         /\ GetOf(W, k)' = ""]_vars

\* C15 witness: put(k, v2) with v2 not empty has returned on a key that
\* holds the empty string, and the key still holds it.
C15_Witness ==
  /\ pc[W] = "idle" /\ call[W].op = "put" /\ res[W].status = "ok"
  /\ call[W].value # ""
  /\ GetOf(W, call[W].key) = ""

\* C16: value rows are immutable and permanent. Every row (ID, content)
\* that the writer reads, or that is committed, is there unchanged after
\* every step, so the tables of values only grow and looking a stored
\* content up again yields the same ID.
C16_ValuesPermanent ==
  [][/\ Vals(W) \subseteq Vals(W)'
     /\ dvals \subseteq dvals'
     /\ \A v \in Contents(Vals(W)) :
          SelectVal(Vals(W)', v) = SelectVal(Vals(W), v)]_vars

\* C16 witness: a put found its value stored and is about to insert a key
\* row with the ID that another key already references.
C16_Witness ==
  /\ pc[W] = "put_keys"
  /\ row[W] \in entry[W].vals
  /\ \E r \in KeysT(W) : r.valueID = row[W].ID

\* C17: a put on a key that has a key row changes neither table, as read
\* and as committed; when its value is a content that is not stored, no
\* row of vals is made for it.
C17_NoOpPut ==
  [][\A k \in Keys, v \in Values :
       SetitemBegin(W, k, v) /\ HasKeyRow(W, k) =>
         /\ pc'[W] = "idle"
         /\ Vals(W)' = Vals(W) /\ KeysT(W)' = KeysT(W)
         /\ dvals' = dvals /\ dkeys' = dkeys
         /\ pendV' = pendV /\ pendK' = pendK
         /\ v \notin Contents(Vals(W)) => v \notin Contents(Vals(W)')]_vars

\* C17 witness: a put on a present key has returned and its value, which
\* differs from the key's, is stored nowhere.
C17_Witness ==
  /\ pc[W] = "idle" /\ call[W].op = "put" /\ res[W].status = "ok"
  /\ GetOf(W, call[W].key) \notin {None, call[W].value}
  /\ call[W].value \notin Contents(Vals(W))

\* C18 (as claimed): putmany inserts a row for every value of the mapping
\* that is not stored before it looks at the keys. So for every mapping
\* with an item whose key is stored and whose value is new, the value
\* inserts succeed, the call returns without error, and on return every
\* key yields what the puts of the items, in any order, would make it
\* yield, while vals differs from theirs by rows that no key references.
C18_OrphanValueRow ==
  [][LET Collides(m, db) ==
           \E i \in DOMAIN m : /\ \E r \in db.keys : r.key = m[i][1]
                               /\ m[i][2] \notin Contents(db.vals)
     IN /\ \A m \in Mappings :
             PutmanyBegin(W, m) /\ Collides(m, View(W)) =>
               /\ pc'[W] = "pm_commit1"
               /\ Contents(Vals(W)') = Contents(Vals(W)) \cup MapValues(m)
               /\ KeysT(W)' = KeysT(W)
        /\ pc[W] \in PmPcs /\ Collides(mapping[W], entry[W]) =>
             /\ res'[W].status \notin Errors
             /\ pc'[W] = "idle" =>
                  \A s \in Orders(mapping[W]) :
                    LET q == PutSeq(entry[W], s)
                    IN /\ q.ok
                       /\ Observable(View(W)').content = Observable(q).content
                       /\ q.vals # Vals(W)'
                       /\ \A v \in Vals(W)' \ q.vals :
                            \A r \in KeysT(W)' : r.valueID # v.ID]_vars

\* C19: a put or putmany that returns without error has committed what it
\* inserted. The step by which a write returns after inserting leaves no
\* row uncommitted and no transaction open; a call that returns at once
\* without error (a put on a stored key, a read) leaves the transaction and
\* the file as they were; so after writes that
\* all returned without error nothing is pending, and a crash of the idle
\* connection leaves in the file every association that get() yielded.
C19_CommittedOnReturn ==
  [][/\ pc[W] \in PutPcs \cup PmPcs /\ pc'[W] = "idle" /\ res'[W].status = "ok" =>
          /\ pendV'[W] = {} /\ pendK'[W] = {} /\ ~intx'[W]
          /\ dvals' = Vals(W) /\ dkeys' = KeysT(W)
     /\ pc[W] = "idle" /\ pc'[W] = "idle" /\ res'[W].status = "ok" =>
          pendV' = pendV /\ pendK' = pendK /\ intx' = intx
          /\ dvals' = dvals /\ dkeys' = dkeys
     /\ Crash(W) /\ pc[W] = "idle" =>
          /\ \A k \in Keys : DGet(k)' = GetOf(W, k)
          /\ pendV[W] = {} /\ pendK[W] = {} => dvals' = Vals(W) /\ dkeys' = KeysT(W)]_vars

\* C19 witness: the process died after a write had returned; nothing was
\* pending, and the file holds two keys and two values.
C19_Witness ==
  /\ pc[W] = "closed" /\ res[W].status = "crash" /\ res[W].ret = "idle"
  /\ ~intx[W] /\ pendV[W] = {} /\ pendK[W] = {}
  /\ Cardinality(dkeys) = 2 /\ Cardinality(dvals) = 2

\* No key has two rows.
OneRowPerKey(keys) == \A r, q \in keys : r.key = q.key => r = q

\* C14: racing writers. With two connections whose puts and putmanys
\* interleave, an INSERT of a content or of a key that the other writer
\* stored after this writer's SELECT found it absent violates the
\* uniqueness constraint: the call ends at that statement with
\* IntegrityError, raised to its caller, and inserts nothing further (no
\* retry, no fetch of the existing row). In every state each connection
\* reads, and the file holds, at most one key row per key, at most one
\* value row per content, and key rows that reference an existing value row.
C14_RacingWriters ==
  /\ [](/\ Dedup(dvals, dkeys) /\ OneRowPerKey(dkeys) /\ RefIntegrity(dvals, dkeys)
        /\ \A c \in Conns :
             /\ Dedup(Vals(c), KeysT(c)) /\ OneRowPerKey(KeysT(c))
             /\ RefIntegrity(Vals(c), KeysT(c)))
  /\ [][\A c \in Conns :
          /\ SetitemInsertVal(c) /\ call[c].value \in Contents(Vals(c)) =>
               /\ pc'[c] = "idle" /\ res'[c] = Raised("IntegrityError")
               /\ Vals(c)' = Vals(c) /\ KeysT(c)' = KeysT(c)
          /\ SetitemKeys(c) /\ HasKeyRow(c, call[c].key) =>
               /\ pc'[c] = "idle" /\ res'[c] = Raised("IntegrityError")
               /\ Vals(c)' = Vals(c) /\ KeysT(c)' = KeysT(c)
          /\ PutmanyInsertVals(c) /\ pc[c] = "pm_insert"
             /\ (\E v \in MapValues(mapping[c]) \ DOMAIN value_ids[c] :
                   v \in Contents(Vals(c))) =>
               /\ pc'[c] = "idle" /\ res'[c] = Raised("IntegrityError")
               /\ KeysT(c)' = KeysT(c)
          /\ PutmanyInsertKeys(c) /\ pc[c] = "pm_keyinsert"
             /\ (\E k \in MapKeys(mapping[c]) \ already_there[c] :
                   HasKeyRow(c, k)) =>
               /\ pc'[c] = "idle" /\ res'[c] = Raised("IntegrityError")
               /\ Vals(c)' = Vals(c)
          /\ res'[c].status = "IntegrityError" /\ res[c].status # "IntegrityError" =>
               pc[c] \in {"put_insert", "put_keys", "pm_insert", "pm_keyinsert"}]_vars

\* C14 witness: two puts of one key with different values raced; one
\* returned and its value is stored, the other ended with IntegrityError at
\* its INSERT of the key.
C14_Witness ==
  \E c, d \in Conns :
    /\ c # d
    /\ call[c].op = "put" /\ res[c].status = "IntegrityError"
    /\ call[d].op = "put" /\ res[d].status = "ok" /\ pc[d] = "idle"
    /\ call[d].key = call[c].key /\ call[d].value # call[c].value
    /\ GetOf(d, call[d].key) = call[d].value
    /\ call[c].value \in Contents(dvals)

====
